---- MODULE Spec2Model ----
(***************************************************************************)
(* A model of the pricing helpers of helper-functions/CardHelpers.js:      *)
(* getAmountWithSign, getDiscountedAmount, getReferDiscount and            *)
(* getSelectedAddOn, together with the part of the redux store they read   *)
(* (configData); and of the main workflow of scripts/git/smart-commit.sh.  *)
(*                                                                         *)
(* JavaScript values are records tagged by t.  A finite Number is an exact *)
(* rational n/d in lowest terms.  The amounts given to toFixed are         *)
(* multiples of 1/8 and 1/4, which a double holds exactly, so the rounding *)
(* modelled here is the rounding the runtime performs on them; arithmetic  *)
(* on discounts is exact where the runtime rounds to the nearest double.   *)
(* A String is a sequence of one-character strings.                        *)
(***************************************************************************)
EXTENDS Integers, Sequences, FiniteSets

VARIABLES store, last, calls, sh

vars == <<store, last, calls, sh>>

----------------------------------------------------------------------------
(* Bounds of the model *)

\* the configured digit_after_decimal_point ranges over 0..MaxDecimals
MaxDecimals == 3
\* numeric amounts range over -MaxEighths/8 .. MaxEighths/8 in steps of 1/8
MaxEighths == 20
\* quantities range over 0..MaxQuantity
MaxQuantity == 3
\* add-on sequences have up to MaxAddOns entries
MaxAddOns == 3
\* callers 1..MaxCallers may be inside getAmountWithSign at the same time
MaxCallers == 2
\* up to MaxChanged files differ from HEAD when smart-commit.sh starts
MaxChanged == 3
\* up to MaxStaged of them are in the index already
MaxStaged == 1

----------------------------------------------------------------------------
(* JavaScript values *)

Undefined == [t |-> "undefined"]
Null == [t |-> "null"]
NaN == [t |-> "NaN"]
Infinity(sign) == [t |-> "Infinity", sg |-> sign]
Bool(b) == [t |-> "boolean", b |-> b]
Str(chars) == [t |-> "string", s |-> chars]

Abs(i) == IF i < 0 THEN -i ELSE i

RECURSIVE GCD(_, _)
GCD(a, b) == IF b = 0 THEN a ELSE GCD(b, a % b)

\* the finite Number n/d (d # 0), in lowest terms with a positive denominator
Num(n, d) ==
    LET g == GCD(Abs(n), Abs(d))
        sg == IF d < 0 THEN -1 ELSE 1
    IN  [t |-> "number", n |-> sg * (n \div g), d |-> sg * (d \div g)]

Whole(i) == Num(i, 1)

IsFinite(v) == v.t = "number"

RECURSIVE Pow10(_)
Pow10(k) == IF k = 0 THEN 1 ELSE 10 * Pow10(k - 1)

Digits == <<"0", "1", "2", "3", "4", "5", "6", "7", "8", "9">>

IsDigit(c) == \E i \in 1..10 : Digits[i] = c
DigitVal(c) == (CHOOSE i \in 1..10 : Digits[i] = c) - 1

\* the decimal digits of a natural number
RECURSIVE NatToStr(_)
NatToStr(k) ==
    IF k < 10 THEN <<Digits[k + 1]>>
    ELSE NatToStr(k \div 10) \o <<Digits[(k % 10) + 1]>>

\* the value of a sequence of decimal digits (0 for the empty sequence)
RECURSIVE DigitsToNat(_)
DigitsToNat(s) ==
    IF s = <<>> THEN 0
    ELSE 10 * DigitsToNat(SubSeq(s, 1, Len(s) - 1)) + DigitVal(s[Len(s)])

----------------------------------------------------------------------------
(* Conversions and operators of the runtime *)

IsSpace(c) == c = " "

RECURSIVE TrimLeft(_)
TrimLeft(s) == IF s # <<>> /\ IsSpace(s[1]) THEN TrimLeft(Tail(s)) ELSE s

RECURSIVE TrimRight(_)
TrimRight(s) ==
    IF s # <<>> /\ IsSpace(s[Len(s)]) THEN TrimRight(SubSeq(s, 1, Len(s) - 1)) ELSE s

InfinityStr == <<"I", "n", "f", "i", "n", "i", "t", "y">>

\* StringToNumber: white space trimmed, "" is 0, then an optional sign and
\* either Infinity or decimal digits with at most one point; anything else is
\* NaN.  (No string of the model has an exponent or a radix prefix.)
StringToNumber(chars) ==
    LET s == TrimRight(TrimLeft(chars))
        signed == s # <<>> /\ s[1] \in {"-", "+"}
        sign == IF s # <<>> /\ s[1] = "-" THEN -1 ELSE 1
        body == IF signed THEN Tail(s) ELSE s
        dots == {i \in 1..Len(body) : body[i] = "."}
        p == IF dots = {} THEN Len(body) + 1 ELSE CHOOSE i \in dots : TRUE
        ip == SubSeq(body, 1, p - 1)
        fp == SubSeq(body, p + 1, Len(body))
    IN  IF s = <<>> THEN Whole(0)
        ELSE IF body = InfinityStr THEN Infinity(sign)
        ELSE IF /\ Cardinality(dots) <= 1
                /\ \A i \in 1..Len(body) : i \in dots \/ IsDigit(body[i])
                /\ Len(ip) + Len(fp) > 0
             THEN Num(sign * (DigitsToNat(ip) * Pow10(Len(fp)) + DigitsToNat(fp)),
                      Pow10(Len(fp)))
             ELSE NaN

\* ToNumber, as Number(v) and the arithmetic operators apply it
ToNumber(v) ==
    CASE v.t = "undefined" -> NaN
      [] v.t = "null" -> Whole(0)
      [] v.t = "boolean" -> IF v.b THEN Whole(1) ELSE Whole(0)
      [] v.t = "string" -> StringToNumber(v.s)
      [] OTHER -> v

\* ToBoolean, as the conditional operator, || and if apply it
ToBoolean(v) ==
    CASE v.t \in {"undefined", "null", "NaN"} -> FALSE
      [] v.t = "boolean" -> v.b
      [] v.t = "number" -> v.n # 0
      [] v.t = "string" -> v.s # <<>>
      [] OTHER -> TRUE

IsNullish(v) == v.t \in {"undefined", "null"}

\* isNaN(x) for a Number x
isNaN(x) == x.t = "NaN"

SignOf(x) ==
    CASE x.t = "Infinity" -> x.sg
      [] x.t = "number" -> IF x.n > 0 THEN 1 ELSE IF x.n < 0 THEN -1 ELSE 0
      [] OTHER -> 0

\* a * b on Numbers
NumMul(a, b) ==
    IF isNaN(a) \/ isNaN(b) THEN NaN
    ELSE IF IsFinite(a) /\ IsFinite(b) THEN Num(a.n * b.n, a.d * b.d)
    ELSE IF SignOf(a) * SignOf(b) = 0 THEN NaN
    ELSE Infinity(SignOf(a) * SignOf(b))

\* a / b on Numbers (a zero divisor is +0)
NumDiv(a, b) ==
    IF isNaN(a) \/ isNaN(b) THEN NaN
    ELSE IF IsFinite(a) /\ IsFinite(b)
         THEN IF b.n # 0 THEN Num(a.n * b.d, a.d * b.n)
              ELSE IF a.n = 0 THEN NaN ELSE Infinity(SignOf(a))
    ELSE IF IsFinite(a) THEN Whole(0)
    ELSE IF IsFinite(b) THEN Infinity(IF SignOf(b) < 0 THEN -SignOf(a) ELSE SignOf(a))
    ELSE NaN

\* a - b on Numbers
NumSub(a, b) ==
    IF isNaN(a) \/ isNaN(b) THEN NaN
    ELSE IF IsFinite(a) /\ IsFinite(b) THEN Num(a.n * b.d - b.n * a.d, a.d * b.d)
    ELSE IF IsFinite(b) THEN a
    ELSE IF IsFinite(a) THEN Infinity(-SignOf(b))
    ELSE IF SignOf(a) = SignOf(b) THEN NaN ELSE a

\* a > b on Numbers
NumGt(a, b) ==
    IF isNaN(a) \/ isNaN(b) THEN FALSE
    ELSE IF IsFinite(a) /\ IsFinite(b) THEN a.n * b.d > b.n * a.d
    ELSE IF IsFinite(b) THEN SignOf(a) > 0
    ELSE IF IsFinite(a) THEN SignOf(b) < 0
    ELSE SignOf(a) > SignOf(b)

\* the operators on arbitrary values: both operands go through ToNumber
JsMul(a, b) == NumMul(ToNumber(a), ToNumber(b))
JsDiv(a, b) == NumDiv(ToNumber(a), ToNumber(b))
JsSub(a, b) == NumSub(ToNumber(a), ToNumber(b))
JsGt(a, b) == NumGt(ToNumber(a), ToNumber(b))

\* Math.floor: the largest integer not above x
MathFloor(x) == IF IsFinite(x) THEN Whole(x.n \div x.d) ELSE x

\* Number::toString for NaN, the infinities and the integers below 10^21,
\* which is what a template literal receives from Math.floor
NumberToString(x) ==
    CASE x.t = "NaN" -> <<"N", "a", "N">>
      [] x.t = "Infinity" -> IF x.sg < 0 THEN <<"-">> \o InfinityStr ELSE InfinityStr
      [] OTHER -> IF x.n < 0 THEN <<"-">> \o NatToStr(-x.n) ELSE NatToStr(x.n)

\* what `${v}` puts into a template literal
ToString(v) ==
    CASE v.t = "string" -> v.s
      [] v.t = "undefined" -> <<"u", "n", "d", "e", "f", "i", "n", "e", "d">>
      [] v.t = "null" -> <<"n", "u", "l", "l">>
      [] v.t = "boolean" -> IF v.b THEN <<"t", "r", "u", "e">>
                            ELSE <<"f", "a", "l", "s", "e">>
      [] OTHER -> NumberToString(v)

Return(v) == [kind |-> "return", val |-> v]
Throw(e) == [kind |-> "throw", err |-> e]

\* ToIntegerOrInfinity: NaN is 0, a finite number loses its fraction
ToIntegerOrInfinity(v) ==
    LET x == ToNumber(v)
    IN  IF isNaN(x) THEN Whole(0)
        ELSE IF IsFinite(x)
             THEN Whole(IF x.n < 0 THEN -((-x.n) \div x.d) ELSE x.n \div x.d)
             ELSE x

\* the digits of the natural k, left-padded with zeros to at least w digits
RECURSIVE ZeroPad(_, _)
ZeroPad(s, w) == IF Len(s) >= w THEN s ELSE ZeroPad(<<"0">> \o s, w)

\* the digits of the integer nearest to |x| * 10^f, the larger one on a tie,
\* at least f + 1 of them
RoundedDigits(x, f) ==
    ZeroPad(NatToStr((2 * Abs(x.n) * Pow10(f) + x.d) \div (2 * x.d)), f + 1)

\* the digits m with a point before the last f of them
PointBefore(m, f) ==
    IF f = 0 THEN m
    ELSE SubSeq(m, 1, Len(m) - f) \o <<".">> \o SubSeq(m, Len(m) - f + 1, Len(m))

\* Number.prototype.toFixed for |x| < 10^21: a RangeError unless 0 <= f <= 100;
\* a non-finite x prints as itself; else the integer nearest to |x| * 10^f is
\* printed with f digits after the point, and a minus sign in front when x < 0.
toFixed(x, fractionDigits) ==
    LET f == ToIntegerOrInfinity(fractionDigits)
    IN  IF ~IsFinite(f) \/ f.n < 0 \/ f.n > 100 THEN Throw("RangeError")
        ELSE IF ~IsFinite(x) THEN Return(Str(NumberToString(x)))
        ELSE IF x.n < 0
             THEN Return(Str(<<"-">> \o PointBefore(RoundedDigits(x, f.n), f.n)))
             ELSE Return(Str(PointBefore(RoundedDigits(x, f.n), f.n)))

----------------------------------------------------------------------------
(* The redux store, as CardHelpers.js reads it *)

Object(fields) == [t |-> "object", f |-> fields]
EmptyObject == [t |-> "object", f |-> [name \in {} |-> Undefined]]

\* obj.name: a property the object does not have reads as undefined
Get(obj, name) == IF name \in DOMAIN obj.f THEN obj.f[name] ELSE Undefined

\* obj?.name
OptGet(obj, name) == IF IsNullish(obj) THEN Undefined ELSE Get(obj, name)

\* a || b  and  a ?? b
Or(a, b) == IF ToBoolean(a) THEN a ELSE b
Coalesce(a, b) == IF IsNullish(a) THEN b ELSE a

DefaultDecimals == 2
DefaultSymbol == Str(<<>>)
DefaultDirection == Str(<<"l", "e", "f", "t">>)

\* the configData object the backend delivers
Config(decimals, symbol, direction) ==
    Object([digit_after_decimal_point |-> decimals,
            currency_symbol |-> symbol,
            currency_symbol_direction |-> direction])

\* store.getState() with a configData slice holding cd
StateWith(cd) == Object([configData |-> Object([configData |-> cd])])

----------------------------------------------------------------------------
(* helper-functions/CardHelpers.js *)

\* lines 22-25: the configuration a call works with, each field with its default
readConfig_WrongDefault(st) ==
    LET slice == Or(OptGet(st, "configData"), EmptyObject)
        configData == Get(slice, "configData")
    IN  [decimals |-> Coalesce(OptGet(configData, "digit_after_decimal_point"), Whole(0)),
         symbol |-> Or(OptGet(configData, "currency_symbol"), DefaultSymbol),
         direction |-> Or(OptGet(configData, "currency_symbol_direction"),
                          Str(<<"r", "i", "g", "h", "t">>))]

readConfig(st) ==
    LET slice == Or(OptGet(st, "configData"), EmptyObject)
        configData == Get(slice, "configData")
    IN  [decimals |-> Coalesce(OptGet(configData, "digit_after_decimal_point"),
                               Whole(DefaultDecimals)),
         symbol |-> Or(OptGet(configData, "currency_symbol"), DefaultSymbol),
         direction |-> Or(OptGet(configData, "currency_symbol_direction"),
                          DefaultDirection)]

\* formatNumber, the closure of getAmountWithSign over needDecimal and decimals
formatNumber_FixedDigits(num, needDecimal, decimals) ==
    IF ToBoolean(needDecimal) THEN toFixed(num, Whole(DefaultDecimals))
    ELSE Return(MathFloor(num))

formatNumber(num, needDecimal, decimals) ==
    IF ToBoolean(needDecimal) THEN toFixed(num, decimals) ELSE Return(MathFloor(num))

\* line 36: the symbol in front for "left", behind for everything else
placeSymbol_RightOnly(direction, symbol, formattedAmount) ==
    IF direction = Str(<<"r", "i", "g", "h", "t">>)
    THEN Str(ToString(formattedAmount) \o ToString(symbol))
    ELSE Str(ToString(symbol) \o ToString(formattedAmount))

placeSymbol(direction, symbol, formattedAmount) ==
    IF direction = Str(<<"l", "e", "f", "t">>)
    THEN Str(ToString(symbol) \o ToString(formattedAmount))
    ELSE Str(ToString(formattedAmount) \o ToString(symbol))

\* getAmountWithSign(amount, needDecimal = true), with st the value of
\* store?.getState() at the one place the function reads it
getAmountWithSign(amount, needDecimalArg, st) ==
    LET needDecimal == IF needDecimalArg = Undefined THEN Bool(TRUE) ELSE needDecimalArg
    IN  IF IsNullish(amount) \/ isNaN(ToNumber(amount)) THEN Return(Str(<<>>))
        ELSE LET cfg == readConfig(st)
                 formattedAmount ==
                     formatNumber(ToNumber(amount), needDecimal, cfg.decimals)
             IN  IF formattedAmount.kind = "throw" THEN formattedAmount
                 ELSE Return(placeSymbol(cfg.direction, cfg.symbol, formattedAmount.val))

\* getDiscountedAmount with the result clamped at zero
getDiscountedAmount_Clamped(price, discount, discountType, storeDiscount, quantity) ==
    LET q == IF ToBoolean(quantity) THEN quantity ELSE Whole(1)
        r == JsSub(price, JsMul(discount, q))
    IN  IF JsGt(discount, Whole(0))
        THEN IF discountType = Str(<<"a", "m", "o", "u", "n", "t">>)
             THEN Return(IF NumGt(Whole(0), r) THEN Whole(0) ELSE r)
             ELSE IF \/ discountType = Str(<<"p", "e", "r", "c", "e", "n", "t">>)
                     \/ discountType = Str(<<"f", "i", "x", "e", "d">>)
                  THEN Return(JsSub(price, JsMul(JsDiv(discount, Whole(100)), price)))
                  ELSE Return(price)
        ELSE Return(price)

\* getDiscountedAmount with the quantity applied to the percentage as well
getDiscountedAmount_PercentTimesQuantity(price, discount, discountType, storeDiscount, quantity) ==
    LET q == IF ToBoolean(quantity) THEN quantity ELSE Whole(1)
    IN  IF JsGt(discount, Whole(0))
        THEN IF discountType = Str(<<"a", "m", "o", "u", "n", "t">>)
             THEN Return(JsSub(price, JsMul(discount, q)))
             ELSE IF \/ discountType = Str(<<"p", "e", "r", "c", "e", "n", "t">>)
                     \/ discountType = Str(<<"f", "i", "x", "e", "d">>)
                  THEN Return(JsSub(price,
                                    JsMul(JsMul(JsDiv(discount, Whole(100)), price), q)))
                  ELSE Return(price)
        ELSE Return(price)

\* getDiscountedAmount guarded by discount != 0 instead of discount > 0
getDiscountedAmount_NonZeroGuard(price, discount, discountType, storeDiscount, quantity) ==
    LET q == IF ToBoolean(quantity) THEN quantity ELSE Whole(1)
    IN  IF ToNumber(discount) # Whole(0)
        THEN IF discountType = Str(<<"a", "m", "o", "u", "n", "t">>)
             THEN Return(JsSub(price, JsMul(discount, q)))
             ELSE IF \/ discountType = Str(<<"p", "e", "r", "c", "e", "n", "t">>)
                     \/ discountType = Str(<<"f", "i", "x", "e", "d">>)
                  THEN Return(JsSub(price, JsMul(JsDiv(discount, Whole(100)), price)))
                  ELSE Return(price)
        ELSE Return(price)

\* getDiscountedAmount without the default of the quantity
getDiscountedAmount_NoQuantityDefault(price, discount, discountType, storeDiscount, quantity) ==
    IF JsGt(discount, Whole(0))
    THEN IF discountType = Str(<<"a", "m", "o", "u", "n", "t">>)
         THEN Return(JsSub(price, JsMul(discount, quantity)))
         ELSE IF \/ discountType = Str(<<"p", "e", "r", "c", "e", "n", "t">>)
                 \/ discountType = Str(<<"f", "i", "x", "e", "d">>)
              THEN Return(JsSub(price, JsMul(JsDiv(discount, Whole(100)), price)))
              ELSE Return(price)
    ELSE Return(price)

\* getDiscountedAmount with a plain else for the percentage branch
getDiscountedAmount_ElsePercent(price, discount, discountType, storeDiscount, quantity) ==
    LET q == IF ToBoolean(quantity) THEN quantity ELSE Whole(1)
    IN  IF JsGt(discount, Whole(0))
        THEN IF discountType = Str(<<"a", "m", "o", "u", "n", "t">>)
             THEN Return(JsSub(price, JsMul(discount, q)))
             ELSE Return(JsSub(price, JsMul(JsDiv(discount, Whole(100)), price)))
        ELSE Return(price)

\* getDiscountedAmount with a store discount, where there is one, taking the
\* place of the product's discount
getDiscountedAmount_StoreDiscountWins(price, discount, discountType, storeDiscount, quantity) ==
    LET q == IF ToBoolean(quantity) THEN quantity ELSE Whole(1)
        d == IF ToBoolean(storeDiscount) THEN storeDiscount ELSE discount
    IN  IF JsGt(d, Whole(0))
        THEN IF discountType = Str(<<"a", "m", "o", "u", "n", "t">>)
             THEN Return(JsSub(price, JsMul(d, q)))
             ELSE IF \/ discountType = Str(<<"p", "e", "r", "c", "e", "n", "t">>)
                     \/ discountType = Str(<<"f", "i", "x", "e", "d">>)
                  THEN Return(JsSub(price, JsMul(JsDiv(d, Whole(100)), price)))
                  ELSE Return(price)
        ELSE Return(price)
\* getDiscountedAmount(price, discount, discountType, storeDiscount, quantity)
getDiscountedAmount(price, discount, discountType, storeDiscount, quantity) ==
    LET q == IF ToBoolean(quantity) THEN quantity ELSE Whole(1)
    IN  IF JsGt(discount, Whole(0))
        THEN IF discountType = Str(<<"a", "m", "o", "u", "n", "t">>)
             THEN Return(JsSub(price, JsMul(discount, q)))
             ELSE IF \/ discountType = Str(<<"p", "e", "r", "c", "e", "n", "t">>)
                     \/ discountType = Str(<<"f", "i", "x", "e", "d">>)
                  THEN Return(JsSub(price, JsMul(JsDiv(discount, Whole(100)), price)))
                  ELSE Return(price)
        ELSE Return(price)

\* getReferDiscount without the division by 100
getReferDiscount_WholeFactor(totalAmountForRefer, refDiscount, refPercentage) ==
    IF refPercentage = Str(<<"p", "e", "r", "c", "e", "n", "t", "a", "g", "e">>)
    THEN Return(JsMul(refDiscount, totalAmountForRefer))
    ELSE Return(refDiscount)

\* getReferDiscount taking "percent" for a percentage as well
getReferDiscount_PercentToo(totalAmountForRefer, refDiscount, refPercentage) ==
    IF \/ refPercentage = Str(<<"p", "e", "r", "c", "e", "n", "t", "a", "g", "e">>)
       \/ refPercentage = Str(<<"p", "e", "r", "c", "e", "n", "t">>)
    THEN Return(JsMul(JsDiv(refDiscount, Whole(100)), totalAmountForRefer))
    ELSE Return(refDiscount)

\* getReferDiscount(totalAmountForRefer, refDiscount, refPercentage)
getReferDiscount(totalAmountForRefer, refDiscount, refPercentage) ==
    IF refPercentage = Str(<<"p", "e", "r", "c", "e", "n", "t", "a", "g", "e">>)
    THEN Return(JsMul(JsDiv(refDiscount, Whole(100)), totalAmountForRefer))
    ELSE Return(refDiscount)

----------------------------------------------------------------------------
\* an Array with the given elements
Array(items) == [t |-> "array", items |-> items]

\* v?.length: the number of elements of an array, of characters of a string,
\* the property of that name of any other object
LengthOf(v) ==
    CASE IsNullish(v) -> Undefined
      [] v.t = "array" -> Whole(Len(v.items))
      [] v.t = "string" -> Whole(Len(v.s))
      [] v.t = "object" -> Get(v, "length")
      [] OTHER -> Undefined

Separator == <<",", " ">>

\* the callback with every entry taken for a checked one
addOnItem_Unconditional(add_on, item, index) ==
    add_on \o (IF index # 0 THEN Separator ELSE <<>>) \o ToString(OptGet(item, "name"))

\* the callback with the separator decided by what has been included so far
addOnItem_Joining(add_on, item, index) ==
    IF ToBoolean(OptGet(item, "isChecked"))
    THEN add_on \o (IF add_on # <<>> THEN Separator ELSE <<>>) \o ToString(Get(item, "name"))
    ELSE add_on

\* the callback with the separator emitted for unchecked entries as well
addOnItem_SeparatorFirst(add_on, item, index) ==
    IF ToBoolean(OptGet(item, "isChecked"))
    THEN add_on \o (IF index # 0 THEN Separator ELSE <<>>) \o ToString(Get(item, "name"))
    ELSE add_on \o (IF index # 0 THEN Separator ELSE <<>>)

\* lines 64-68, the callback given to map: add_on after the entry at index
addOnItem(add_on, item, index) ==
    IF ToBoolean(OptGet(item, "isChecked"))
    THEN add_on \o (IF index # 0 THEN Separator ELSE <<>>) \o ToString(Get(item, "name"))
    ELSE add_on

\* Array.prototype.map calling the callback on the elements from index on
RECURSIVE mapAddOns(_, _, _)
mapAddOns(items, index, add_on) ==
    IF index >= Len(items) THEN add_on
    ELSE mapAddOns(items, index + 1, addOnItem(add_on, items[index + 1], index))

\* getSelectedAddOn(add_ons): only an array has a map to call
getSelectedAddOn(add_ons) ==
    IF JsGt(LengthOf(add_ons), Whole(0))
    THEN IF add_ons.t = "array" THEN Return(Str(mapAddOns(add_ons.items, 0, <<>>)))
         ELSE Throw("TypeError")
    ELSE Return(Str(<<>>))

\* add_ons after a call that marks the entries it has read as unchecked
addOnsAfter_Unchecking(add_ons) ==
    IF IsNullish(add_ons) \/ add_ons.t # "array" THEN add_ons
    ELSE Array([i \in 1..Len(add_ons.items) |->
                  IF IsNullish(add_ons.items[i]) THEN add_ons.items[i]
                  ELSE Object([name |-> Get(add_ons.items[i], "name"),
                               isChecked |-> Bool(FALSE)])])

\* add_ons after the call: lines 61-71 assign to the local add_on alone, and
\* the array map returns is dropped
addOnsAfter(add_ons) == add_ons

----------------------------------------------------------------------------
(* scripts/git/smart-commit.sh *)

\* a case pattern against a word: * stands for any characters, a slash
\* included; every other character for itself
RECURSIVE Glob(_, _)
Glob(pattern, word) ==
    IF pattern = <<>> THEN word = <<>>
    ELSE IF Head(pattern) = "*"
         THEN Glob(Tail(pattern), word) \/ (word # <<>> /\ Glob(pattern, Tail(word)))
         ELSE word # <<>> /\ Head(word) = Head(pattern) /\ Glob(Tail(pattern), Tail(word))

\* the patterns of categorize_file, line 375
InfrastructurePatterns ==
    {<<"d", "e", "p", "l", "o", "y", "m", "e", "n", "t", "/", "i", "n", "f", "r", "a", "s", "t", "r", "u", "c", "t", "u", "r", "e", "/", "*">>,
     <<"t", "e", "r", "r", "a", "f", "o", "r", "m", ".", "t", "f", "v", "a", "r", "s">>,
     <<"*", ".", "t", "f">>,
     <<"d", "o", "c", "k", "e", "r", "-", "c", "o", "m", "p", "o", "s", "e", "*", ".", "y", "m", "l">>,
     <<"D", "o", "c", "k", "e", "r", "f", "i", "l", "e">>,
     <<"k", "u", "b", "e", "r", "n", "e", "t", "e", "s", "/", "*">>,
     <<".", "g", "i", "t", "h", "u", "b", "/", "w", "o", "r", "k", "f", "l", "o", "w", "s", "/", "*">>,
     <<"s", "c", "r", "i", "p", "t", "s", "/", "g", "i", "t", "/", "*">>,
     <<"s", "c", "r", "i", "p", "t", "s", "/", "*", "d", "e", "v", "o", "p", "s", "*">>,
     <<"s", "c", "r", "i", "p", "t", "s", "/", "*", "d", "e", "p", "l", "o", "y", "*">>,
     <<"s", "c", "r", "i", "p", "t", "s", "/", "*", "i", "n", "f", "r", "a", "*">>}

\* the patterns of categorize_file, line 380
MobilePatterns ==
    {<<"*", "/", "p", "u", "b", "s", "p", "e", "c", ".", "y", "a", "m", "l">>,
     <<"*", "/", "a", "n", "d", "r", "o", "i", "d", "/", "*">>,
     <<"*", "/", "i", "o", "s", "/", "*">>,
     <<"*", "/", "l", "i", "b", "/", "*">>,
     <<"*", ".", "d", "a", "r", "t">>,
     <<"*", "/", "f", "l", "u", "t", "t", "e", "r", "_", "*">>}

\* the patterns of categorize_file, line 385
FrontendPatterns ==
    {<<"*", "/", "p", "a", "c", "k", "a", "g", "e", ".", "j", "s", "o", "n">>,
     <<"*", "/", "n", "e", "x", "t", ".", "c", "o", "n", "f", "i", "g", ".", "*">>,
     <<"*", "/", "s", "r", "c", "/", "c", "o", "m", "p", "o", "n", "e", "n", "t", "s", "/", "*">>,
     <<"*", "/", "s", "r", "c", "/", "p", "a", "g", "e", "s", "/", "*">>,
     <<"*", ".", "t", "s", "x">>,
     <<"*", ".", "j", "s", "x">>,
     <<"*", "/", "p", "u", "b", "l", "i", "c", "/", "*">>,
     <<"*", "/", "s", "t", "y", "l", "e", "s", "/", "*">>,
     <<"*", ".", "c", "s", "s">>,
     <<"*", ".", "s", "c", "s", "s">>}

\* the patterns of categorize_file, line 390
BackendPatterns ==
    {<<"a", "p", "p", "/", "*">>,
     <<"c", "o", "n", "f", "i", "g", "/", "*">>,
     <<"d", "a", "t", "a", "b", "a", "s", "e", "/", "*">>,
     <<"r", "o", "u", "t", "e", "s", "/", "*">>,
     <<"r", "e", "s", "o", "u", "r", "c", "e", "s", "/", "v", "i", "e", "w", "s", "/", "*">>,
     <<"c", "o", "m", "p", "o", "s", "e", "r", ".", "j", "s", "o", "n">>,
     <<"a", "r", "t", "i", "s", "a", "n">>,
     <<"*", ".", "p", "h", "p">>,
     <<"M", "o", "d", "u", "l", "e", "s", "/", "*">>}

\* the patterns of categorize_file, line 395
DocsPatterns ==
    {<<"*", ".", "m", "d">>,
     <<"d", "o", "c", "s", "/", "*">>,
     <<"R", "E", "A", "D", "M", "E", "*">>,
     <<"L", "I", "C", "E", "N", "S", "E">>,
     <<"*", ".", "t", "x", "t">>}

\* a | b | c: one of the patterns matches
Matches(patterns, file) == \E p \in patterns : Glob(p, file)

\* the five lists analyze_changes initialises (lines 350-354)
NoFiles ==
    [infrastructure |-> <<>>, mobile |-> <<>>, frontend |-> <<>>, backend |-> <<>>,
     docs |-> <<>>]

\* files_<list>+="$file "
AddTo(lists, list, file) == [lists EXCEPT ![list] = Append(@, file)]

\* categorize_file with the backend patterns tried first
categorize_file_BackendFirst(lists, file, composerJson) ==
    IF Matches(BackendPatterns, file) THEN AddTo(lists, "backend", file)
    ELSE IF Matches(InfrastructurePatterns, file) THEN AddTo(lists, "infrastructure", file)
    ELSE IF Matches(MobilePatterns, file) THEN AddTo(lists, "mobile", file)
    ELSE IF Matches(FrontendPatterns, file) THEN AddTo(lists, "frontend", file)
    ELSE IF Matches(DocsPatterns, file) THEN AddTo(lists, "docs", file)
    ELSE IF composerJson THEN AddTo(lists, "backend", file)
    ELSE AddTo(lists, "frontend", file)

\* categorize_file: the branch of the first pattern list that matches, and the
\* default branch, which looks for composer.json, when none does
categorize_file(lists, file, composerJson) ==
    IF Matches(InfrastructurePatterns, file) THEN AddTo(lists, "infrastructure", file)
    ELSE IF Matches(MobilePatterns, file) THEN AddTo(lists, "mobile", file)
    ELSE IF Matches(FrontendPatterns, file) THEN AddTo(lists, "frontend", file)
    ELSE IF Matches(BackendPatterns, file) THEN AddTo(lists, "backend", file)
    ELSE IF Matches(DocsPatterns, file) THEN AddTo(lists, "docs", file)
    ELSE IF composerJson THEN AddTo(lists, "backend", file)
    ELSE AddTo(lists, "frontend", file)

\* lines 357-359: the loop over the lines of changed_files
RECURSIVE categorizeAll(_, _, _)
categorizeAll(lists, changed_files, composerJson) ==
    IF changed_files = <<>> THEN lists
    ELSE categorizeAll(categorize_file(lists, Head(changed_files), composerJson),
                       Tail(changed_files), composerJson)

----------------------------------------------------------------------------
\* the status analyze_changes returns: that of its last command (line 366),
\* the list
\* [[ -n "$files_docs" ]] && export ... && log ...
analyze_changes_status(lists) == IF lists.docs = <<>> THEN 1 ELSE 0

\* set_git_user with mobile commits given to the backend user
set_git_user_MobileAsBackend(project_type, users) ==
    CASE project_type = "frontend" ->
             [name |-> users.frontend.name, email |-> users.frontend.email]
      [] project_type = "infrastructure" ->
             [name |-> users.devops.name, email |-> users.devops.email]
      [] OTHER -> [name |-> users.backend.name, email |-> users.backend.email]

\* set_git_user: git config user.name and user.email for a project type
set_git_user(project_type, users) ==
    CASE project_type \in {"frontend", "mobile"} ->
             [name |-> users.frontend.name, email |-> users.frontend.email]
      [] project_type = "backend" ->
             [name |-> users.backend.name, email |-> users.backend.email]
      [] project_type = "infrastructure" ->
             [name |-> users.devops.name, email |-> users.devops.email]
      [] OTHER -> [name |-> users.backend.name, email |-> users.backend.email]

\* lines 508-512: the order main_commit_workflow goes through the categories
CommitOrder == <<"infrastructure", "backend", "frontend", "mobile", "docs">>

----------------------------------------------------------------------------
(* The inputs the model draws from *)

Absent == {Undefined, Null}

ConfigDecimals == Absent \cup {Whole(k) : k \in 0..MaxDecimals}
ConfigSymbols == Absent \cup {Str(<<>>), Str(<<"$">>), Str(<<"I", "Q", "D">>)}
ConfigDirections ==
    Absent \cup {Str(<<>>), Str(<<"l", "e", "f", "t">>), Str(<<"r", "i", "g", "h", "t">>),
                 Str(<<"c", "e", "n", "t", "e", "r">>)}

Configs ==
    {Config(d, s, p) : d \in ConfigDecimals, s \in ConfigSymbols, p \in ConfigDirections}

\* what store?.getState() can be: no store, no configData slice, a slice
\* without configuration, a slice with one
StoreStates ==
    {Undefined, Object([auth |-> Undefined])}
        \cup {StateWith(cd) : cd \in Absent \cup Configs}

\* 2469/200 is 12.345, whose double lies just above it: both round alike at
\* every number of digits the model configures
NumericAmounts ==
    {Num(k, 8) : k \in -MaxEighths..MaxEighths}
        \cup {Num(51, 4), Num(-51, 4), Num(7999, 8), Num(-7999, 8), Num(2469, 200)}

StringAmounts ==
    {Str(<<>>), Str(<<"a", "b", "c">>), Str(<<"1", "2", ".", "5">>), Str(<<"-", "7">>),
     Str(<<".", "5">>), Str(<<"1", ".">>), Str(<<"-">>), Str(<<"1", ".", "2", ".", "3">>),
     Str(<<" ", "3", " ">>), Str(<<"$", "5">>), Str(<<"-", ".", "7", "5">>)}

Amounts ==
    NumericAmounts \cup StringAmounts
        \cup {Undefined, Null, NaN, Infinity(1), Infinity(-1), Bool(TRUE)}

NeedDecimals == {Undefined, Bool(TRUE), Bool(FALSE)}

Prices == {Whole(100), Num(25, 2), Whole(0), Whole(-8), Str(<<"1", "0", "0">>)}

Discounts ==
    {Whole(-5), Whole(0), Whole(10), Whole(150), Num(5, 2), Str(<<"1", "0">>),
     Undefined, Null, NaN}

DiscountTypes ==
    {Str(<<"a", "m", "o", "u", "n", "t">>), Str(<<"p", "e", "r", "c", "e", "n", "t">>),
     Str(<<"f", "i", "x", "e", "d">>),
     Str(<<"p", "e", "r", "c", "e", "n", "t", "a", "g", "e">>),
     Str(<<"A", "m", "o", "u", "n", "t">>), Undefined, Null}

StoreDiscounts == {Whole(0), Whole(5)}

FalsyQuantities == {Undefined, Null, Whole(0), NaN, Str(<<>>)}

ReferTotals ==
    {Whole(200), Whole(0), Num(199, 2), Whole(-50), Str(<<"2", "0", "0">>), Undefined}

ReferDiscounts ==
    {Whole(10), Whole(15), Whole(0), Whole(-4), Num(5, 2), Str(<<"1", "0">>),
     Undefined, Null}

ReferKinds ==
    {Str(<<"p", "e", "r", "c", "e", "n", "t", "a", "g", "e">>),
     Str(<<"P", "e", "r", "c", "e", "n", "t", "a", "g", "e">>),
     Str(<<"p", "e", "r", "c", "e", "n", "t">>), Str(<<"a", "m", "o", "u", "n", "t">>),
     Str(<<"f", "l", "a", "t">>), Undefined, Null}
AddOnNames ==
    {<<"C", "h", "e", "e", "s", "e">>, <<"B", "a", "c", "o", "n">>,
     <<"S", "a", "u", "c", "e">>}

\* an entry of the add-on sequence: { name, isChecked }
AddOn(name, isChecked) == Object([name |-> name, isChecked |-> isChecked])

AddOnEntries == {AddOn(Str(n), Bool(b)) : n \in AddOnNames, b \in BOOLEAN}

\* the add-on sequences of up to MaxAddOns entries
AddOnLists == UNION {{Array(s) : s \in [1..k -> AddOnEntries]} : k \in 0..MaxAddOns}

\* what else a caller can hand over: strings, objects with a length, a number,
\* arrays with null or undefined entries, an entry without a name, an entry
\* whose isChecked is a number
MalformedAddOns ==
    {Str(<<"a", "b", "c">>), Str(<<>>), Whole(3),
     Object([length |-> Whole(2)]), Object([length |-> Whole(0)]),
     Array(<<Null, AddOn(Str(<<"S", "a", "u", "c", "e">>), Bool(TRUE))>>),
     Array(<<Undefined, Null>>),
     Array(<<Object([isChecked |-> Bool(TRUE)])>>),
     Array(<<AddOn(Str(<<"B", "a", "c", "o", "n">>), Whole(1)),
             AddOn(Str(<<"S", "a", "u", "c", "e">>), Whole(0))>>)}

AddOnArguments == Absent \cup AddOnLists \cup MalformedAddOns
\* values of digit_after_decimal_point a backend can deliver beyond the
\* non-negative integers: negative, fractional, very large, a numeral
UnusualDecimals ==
    {Whole(-1), Whole(101), Num(5, 2), Str(<<"2">>), Whole(2)}

UnusualConfigs ==
    {Config(d, Str(<<"$">>), p) :
        d \in UnusualDecimals, p \in {Str(<<"l", "e", "f", "t">>), Undefined}}

AnyStoreStates ==
    {Undefined, Object([auth |-> Undefined])}
        \cup {StateWith(cd) : cd \in Absent \cup UnusualConfigs}
\* the configurations the store moves between while calls are under way
LiveConfigs ==
    {Config(Whole(2), Str(<<"$">>), Str(<<"l", "e", "f", "t">>)),
     Config(Whole(0), Str(<<"I", "Q", "D">>), Str(<<"r", "i", "g", "h", "t">>))}

LiveAmounts == {Num(12, 8), Str(<<"a", "b", "c">>)}

LiveNeedDecimals == {Undefined, Bool(FALSE)}
\* changed paths, in the order git lists them
SamplePaths ==
    <<<<"D", "o", "c", "k", "e", "r", "f", "i", "l", "e">>,
      <<"L", "I", "C", "E", "N", "S", "E">>,
      <<"M", "a", "k", "e", "f", "i", "l", "e">>,
      <<"R", "E", "A", "D", "M", "E", ".", "m", "d">>,
      <<"a", "p", "p", "/", "U", "s", "e", "r", ".", "p", "h", "p">>,
      <<"a", "p", "p", "/", "l", "i", "b", "/", "m", "a", "i", "n", ".", "d", "a", "r", "t">>,
      <<"c", "o", "n", "f", "i", "g", "/", "n", "o", "t", "e", "s", ".", "t", "x", "t">>,
      <<"s", "c", "r", "i", "p", "t", "s", "/", "g", "i", "t", "/", "R", "E", "A", "D", "M", "E", ".", "m", "d">>,
      <<"w", "e", "b", "/", "p", "u", "b", "l", "i", "c", "/", "x", ".", "p", "h", "p">>,
      <<"w", "e", "b", "/", "s", "r", "c", "/", "p", "a", "g", "e", "s", "/", "i", "n", "d", "e", "x", ".", "j", "s", "x">>>>

RangeOf(seq) == {seq[i] : i \in 1..Len(seq)}

\* the members of a set of paths in the order of SamplePaths
RECURSIVE Listed(_, _)
Listed(paths, from) ==
    IF from > Len(SamplePaths) THEN <<>>
    ELSE IF SamplePaths[from] \in paths
         THEN <<SamplePaths[from]>> \o Listed(paths, from + 1)
         ELSE Listed(paths, from + 1)

\* what git diff --name-only HEAD can print
ChangedFiles ==
    {Listed(paths, 1) :
        paths \in {ps \in SUBSET RangeOf(SamplePaths) : Cardinality(ps) <= MaxChanged}}

\* the users of commit-config.json, as load_config exports them
ConfiguredUsers ==
    [frontend |-> [name |-> "datacode-front", email |-> "front@datacode.app"],
     backend |-> [name |-> "datacode-backend", email |-> "backend@datacode.app"],
     devops |-> [name |-> "datacode-devops", email |-> "devops@datacode.app"]]

\* the identity in .git/config before the script touches it
DeveloperUser == [name |-> "developer", email |-> "developer@localhost"]
Quantities ==
    {Whole(k) : k \in 0..MaxQuantity}
        \cup FalsyQuantities \cup {Whole(11), Whole(-1), Str(<<"2">>)}

----------------------------------------------------------------------------
(* The state machine: the store holds a configuration; a caller invokes a   *)
(* helper, which runs to completion (the runtime is single-threaded), and   *)
(* hands the result to the display layer, which consumes it.               *)

Idle == [op |-> "idle"]

Callers == 1..MaxCallers

\* an activation of getAmountWithSign: where it stands, its arguments, its
\* locals, its completion, the store state at line 22, and whether the store
\* had another state by the time the call returned
NotCalling ==
    [pc |-> "idle", amount |-> Undefined, needDecimal |-> Undefined,
     state |-> Undefined, configData |-> Undefined, decimals |-> Undefined,
     symbol |-> Undefined, direction |-> Undefined, ret |-> Undefined,
     stale |-> FALSE]

NoCalls == [c \in Callers |-> NotCalling]

\* smart-commit.sh has not been started
NotRunning == [pc |-> "none"]

Init ==
    /\ store \in StoreStates
    /\ last = Idle
    /\ calls = NoCalls
    /\ sh = NotRunning

\* the configuration collaborator replaces the configuration in the store
Dispatch ==
    /\ last = Idle
    /\ store # Undefined
    /\ \E cd \in Absent \cup Configs : store' = StateWith(cd)
    /\ UNCHANGED <<last, calls, sh>>

CallGetAmountWithSign ==
    /\ last = Idle
    /\ \E amount \in Amounts, needDecimal \in NeedDecimals :
          last' = [op |-> "getAmountWithSign",
                   amount |-> amount,
                   needDecimal |-> needDecimal,
                   state |-> store,
                   ret |-> getAmountWithSign(amount, needDecimal, store)]
    /\ UNCHANGED <<store, calls, sh>>

CallGetDiscountedAmount ==
    /\ last = Idle
    /\ \E price \in Prices, discount \in Discounts, discountType \in DiscountTypes,
          storeDiscount \in StoreDiscounts, quantity \in Quantities :
          last' = [op |-> "getDiscountedAmount",
                   price |-> price,
                   discount |-> discount,
                   discountType |-> discountType,
                   storeDiscount |-> storeDiscount,
                   quantity |-> quantity,
                   ret |-> getDiscountedAmount(price, discount, discountType,
                                               storeDiscount, quantity)]
    /\ UNCHANGED <<store, calls, sh>>

CallGetReferDiscount ==
    /\ last = Idle
    /\ \E totalAmountForRefer \in ReferTotals, refDiscount \in ReferDiscounts,
          refPercentage \in ReferKinds :
          last' = [op |-> "getReferDiscount",
                   totalAmountForRefer |-> totalAmountForRefer,
                   refDiscount |-> refDiscount,
                   refPercentage |-> refPercentage,
                   ret |-> getReferDiscount(totalAmountForRefer, refDiscount,
                                            refPercentage)]
    /\ UNCHANGED <<store, calls, sh>>
CallGetSelectedAddOn ==
    /\ last = Idle
    /\ \E add_ons \in AddOnArguments :
          last' = [op |-> "getSelectedAddOn",
                   add_ons |-> add_ons,
                   after |-> addOnsAfter(add_ons),
                   ret |-> getSelectedAddOn(add_ons)]
    /\ UNCHANGED <<store, calls, sh>>
\* the display layer renders the result
Render ==
    /\ last # Idle
    /\ last' = Idle
    /\ UNCHANGED <<store, calls, sh>>

\* formatting: calls of getAmountWithSign under every configuration
NextAmount ==
    \/ Dispatch
    \/ CallGetAmountWithSign
    \/ Render

SpecAmount == Init /\ [][NextAmount]_vars

\* discounts: getDiscountedAmount reads nothing of the store, which stays as
\* it is before the configuration has arrived
InitDiscount ==
    /\ store \in {Undefined, StateWith(Undefined)}
    /\ last = Idle
    /\ calls = NoCalls
    /\ sh = NotRunning

NextDiscount ==
    \/ CallGetDiscountedAmount
    \/ Render

SpecDiscount == InitDiscount /\ [][NextDiscount]_vars

\* referral rewards: getReferDiscount reads nothing of the store either
NextRefer ==
    \/ CallGetReferDiscount
    \/ Render

SpecRefer == InitDiscount /\ [][NextRefer]_vars

\* add-on labels: getSelectedAddOn reads its argument alone
NextAddOn ==
    \/ CallGetSelectedAddOn
    \/ Render

SpecAddOn == InitDiscount /\ [][NextAddOn]_vars

\* the four helpers together, under configurations of every shape
InitHelpers ==
    /\ store \in AnyStoreStates
    /\ last = Idle
    /\ calls = NoCalls
    /\ sh = NotRunning

DispatchAny ==
    /\ last = Idle
    /\ store # Undefined
    /\ \E cd \in Absent \cup UnusualConfigs : store' = StateWith(cd)
    /\ UNCHANGED <<last, calls, sh>>

NextHelpers ==
    \/ DispatchAny
    \/ CallGetAmountWithSign
    \/ CallGetDiscountedAmount
    \/ CallGetReferDiscount
    \/ CallGetSelectedAddOn
    \/ Render

SpecHelpers == InitHelpers /\ [][NextHelpers]_vars

----------------------------------------------------------------------------
(* getAmountWithSign line by line.  A caller may be held up between any two *)
(* lines while the store is updated or the other caller runs: these are     *)
(* more interleavings than a run-to-completion runtime produces.            *)

InitLive ==
    /\ store \in {Object([auth |-> Undefined])}
                    \cup {StateWith(cd) : cd \in {Null} \cup LiveConfigs}
    /\ last = Idle
    /\ calls = NoCalls
    /\ sh = NotRunning

\* the reducer puts a new state object in place of the old one
Update ==
    /\ \E cd \in {Null} \cup LiveConfigs : store' = StateWith(cd)
    /\ UNCHANGED <<last, calls, sh>>

\* lines 19-20: the call is entered; an invalid amount returns at once
Enter(c) ==
    /\ calls[c].pc = "idle"
    /\ \E amount \in LiveAmounts, needDecimal \in LiveNeedDecimals :
          calls' = [calls EXCEPT ![c] =
                      IF IsNullish(amount) \/ isNaN(ToNumber(amount))
                      THEN [NotCalling EXCEPT !.pc = "done", !.amount = amount,
                                              !.needDecimal = needDecimal,
                                              !.ret = Return(Str(<<>>))]
                      ELSE [NotCalling EXCEPT !.pc = "22", !.amount = amount,
                                              !.needDecimal = needDecimal]]
    /\ UNCHANGED <<store, last, sh>>

\* line 22: const { configData } = store?.getState()?.configData || {}
ReadState(c) ==
    /\ calls[c].pc = "22"
    /\ calls' = [calls EXCEPT ![c].pc = "23",
                              ![c].state = store,
                              ![c].configData =
                                  Get(Or(OptGet(store, "configData"), EmptyObject),
                                      "configData")]
    /\ UNCHANGED <<store, last, sh>>

\* line 23: const decimals = configData?.digit_after_decimal_point ?? 2
ReadDecimals(c) ==
    /\ calls[c].pc = "23"
    /\ calls' = [calls EXCEPT ![c].pc = "24",
                              ![c].decimals =
                                  Coalesce(OptGet(calls[c].configData,
                                                  "digit_after_decimal_point"),
                                           Whole(DefaultDecimals))]
    /\ UNCHANGED <<store, last, sh>>

\* line 24 with the symbol taken from the store as it is now
ReadSymbol_FromStore(c) ==
    /\ calls[c].pc = "24"
    /\ calls' = [calls EXCEPT ![c].pc = "25",
                              ![c].symbol = readConfig(store).symbol]
    /\ UNCHANGED <<store, last, sh>>

\* line 24: const symbol = configData?.currency_symbol || ""
ReadSymbol(c) ==
    /\ calls[c].pc = "24"
    /\ calls' = [calls EXCEPT ![c].pc = "25",
                              ![c].symbol =
                                  Or(OptGet(calls[c].configData, "currency_symbol"),
                                     DefaultSymbol)]
    /\ UNCHANGED <<store, last, sh>>

\* line 25 with the direction taken from the store as it is now
ReadDirection_FromStore(c) ==
    /\ calls[c].pc = "25"
    /\ calls' = [calls EXCEPT ![c].pc = "33",
                              ![c].direction = readConfig(store).direction]
    /\ UNCHANGED <<store, last, sh>>

\* line 25: const direction = configData?.currency_symbol_direction || "left"
ReadDirection(c) ==
    /\ calls[c].pc = "25"
    /\ calls' = [calls EXCEPT ![c].pc = "33",
                              ![c].direction =
                                  Or(OptGet(calls[c].configData,
                                            "currency_symbol_direction"),
                                     DefaultDirection)]
    /\ UNCHANGED <<store, last, sh>>

\* lines 33-36: the amount is formatted and the result returned
FormatAndReturn(c) ==
    /\ calls[c].pc = "33"
    /\ LET needDecimal == IF calls[c].needDecimal = Undefined THEN Bool(TRUE)
                          ELSE calls[c].needDecimal
           formattedAmount ==
               formatNumber(ToNumber(calls[c].amount), needDecimal, calls[c].decimals)
       IN  calls' = [calls EXCEPT ![c].pc = "done",
                                  ![c].stale = (store # calls[c].state),
                                  ![c].ret =
                                      IF formattedAmount.kind = "throw"
                                      THEN formattedAmount
                                      ELSE Return(placeSymbol(calls[c].direction,
                                                              calls[c].symbol,
                                                              formattedAmount.val))]
    /\ UNCHANGED <<store, last, sh>>

\* the caller has rendered the result and may call again
Leave(c) ==
    /\ calls[c].pc = "done"
    /\ calls' = [calls EXCEPT ![c] = NotCalling]
    /\ UNCHANGED <<store, last, sh>>

NextLive ==
    \/ Update
    \/ \E c \in Callers :
          \/ Enter(c)
          \/ ReadState(c)
          \/ ReadDecimals(c)
          \/ ReadSymbol(c)
          \/ ReadDirection(c)
          \/ FormatAndReturn(c)
          \/ Leave(c)

SpecLive == InitLive /\ [][NextLive]_vars

----------------------------------------------------------------------------
(* smart-commit.sh without arguments, from the call of main_commit_workflow *)
(* on: the dependencies are present and load_config has exported the       *)
(* users.  The script runs under set -e.  git add, git config and the       *)
(* message generator succeed; git commit fails when nothing is staged.      *)

\* the files a commit has recorded so far
RECURSIVE CommittedFiles(_)
CommittedFiles(commits) ==
    IF commits = <<>> THEN {}
    ELSE Head(commits).files \cup CommittedFiles(Tail(commits))

InitCommit ==
    /\ store = Undefined
    /\ last = Idle
    /\ calls = NoCalls
    /\ \E changed_files \in ChangedFiles, composerJson \in BOOLEAN :
       \E staged \in {ps \in SUBSET RangeOf(changed_files) : Cardinality(ps) <= MaxStaged} :
          sh = [pc |-> "check",
                changed_files |-> changed_files,
                composerJson |-> composerJson,
                users |-> ConfiguredUsers,
                lists |-> NoFiles,
                FILES |-> NoFiles,
                k |-> 1,
                user |-> DeveloperUser,
                userOf |-> "none",
                index |-> staged,
                commits |-> <<>>,
                status |-> -1]

\* lines 499-502: nothing to commit ends the script with status 0
CheckChanges ==
    /\ sh.pc = "check"
    /\ sh' = IF sh.changed_files = <<>>
             THEN [sh EXCEPT !.pc = "exit", !.status = 0]
             ELSE [sh EXCEPT !.pc = "analyze"]
    /\ UNCHANGED <<store, last, calls>>

\* line 505, analyze_changes as a simple command: the lists are filled and
\* the non-empty ones exported; a status other than 0 ends the script
AnalyzeChanges ==
    /\ sh.pc = "analyze"
    /\ LET lists == categorizeAll(NoFiles, sh.changed_files, sh.composerJson)
       IN  sh' = IF sh.changed_files = <<>>
                 THEN [sh EXCEPT !.pc = "exit", !.status = 0]
                 ELSE IF analyze_changes_status(lists) # 0
                      THEN [sh EXCEPT !.pc = "exit", !.lists = lists, !.FILES = lists,
                                      !.status = analyze_changes_status(lists)]
                      ELSE [sh EXCEPT !.pc = "guard", !.lists = lists, !.FILES = lists]
    /\ UNCHANGED <<store, last, calls>>

\* lines 508-512, [[ -n "$FILES_..." ]] &&: an empty category is passed over
Guard ==
    /\ sh.pc = "guard"
    /\ sh.k <= Len(CommitOrder)
    /\ sh' = IF sh.FILES[CommitOrder[sh.k]] = <<>>
             THEN [sh EXCEPT !.k = @ + 1]
             ELSE [sh EXCEPT !.pc = "user"]
    /\ UNCHANGED <<store, last, calls>>

\* line 478 with the identity set for the first category only
SetGitUser_OnlyOnce ==
    /\ sh.pc = "user"
    /\ sh' = IF sh.userOf = "none"
             THEN [sh EXCEPT !.pc = "add",
                             !.user = set_git_user(CommitOrder[sh.k], sh.users),
                             !.userOf = CommitOrder[sh.k]]
             ELSE [sh EXCEPT !.pc = "add"]
    /\ UNCHANGED <<store, last, calls>>
\* line 478: set_git_user "$project_type"
SetGitUser ==
    /\ sh.pc = "user"
    /\ sh' = [sh EXCEPT !.pc = "add",
                        !.user = set_git_user(CommitOrder[sh.k], sh.users),
                        !.userOf = CommitOrder[sh.k]]
    /\ UNCHANGED <<store, last, calls>>

\* line 481: echo "$files" | xargs git add, which stages what still differs
\* from HEAD
GitAdd ==
    /\ sh.pc = "add"
    /\ sh' = [sh EXCEPT !.pc = "commit",
                        !.index = @ \cup (RangeOf(sh.FILES[CommitOrder[sh.k]])
                                            \ CommittedFiles(sh.commits))]
    /\ UNCHANGED <<store, last, calls>>

\* lines 484-491: the message is generated, and git commit (line 489)
\* records the whole index under the user in
\* place; with nothing staged it fails and the script ends
GitCommit ==
    /\ sh.pc = "commit"
    /\ sh' = IF sh.index = {}
             THEN [sh EXCEPT !.pc = "exit", !.status = 1]
             ELSE [sh EXCEPT !.pc = "guard",
                             !.k = @ + 1,
                             !.index = {},
                             !.commits = Append(@, [type |-> CommitOrder[sh.k],
                                                    name |-> sh.user.name,
                                                    email |-> sh.user.email,
                                                    files |-> sh.index])]
    /\ UNCHANGED <<store, last, calls>>

\* lines 514-519: "All commits completed successfully!" and the summary
Summary ==
    /\ sh.pc = "guard"
    /\ sh.k > Len(CommitOrder)
    /\ sh' = [sh EXCEPT !.pc = "done", !.status = 0]
    /\ UNCHANGED <<store, last, calls>>

NextCommit ==
    \/ CheckChanges
    \/ AnalyzeChanges
    \/ Guard
    \/ SetGitUser
    \/ GitAdd
    \/ GitCommit
    \/ Summary

SpecCommit == InitCommit /\ [][NextCommit]_vars

\* the shell goes on to its next command as long as there is one
SpecCommitFair == SpecCommit /\ WF_vars(NextCommit)

----------------------------------------------------------------------------
(* What the claims speak about *)

AmountCall == last.op = "getAmountWithSign"
DiscountCall == last.op = "getDiscountedAmount"

\* an amount that is neither null nor undefined and converts to a finite number
ValidAmount(a) == ~IsNullish(a) /\ IsFinite(ToNumber(a))

\* needDecimal is true, given or by default
WantsDecimals(nd) == nd = Undefined \/ nd = Bool(TRUE)

\* an amount that passes the guard of line 20
ValidNumber(a) == ~IsNullish(a) /\ ~isNaN(ToNumber(a))

\* the configData object of a store state, undefined where there is none
ConfigOf(st) ==
    IF st = Undefined THEN Undefined
    ELSE IF "configData" \notin DOMAIN st.f THEN Undefined
    ELSE st.f.configData.f.configData

\* a field as configured, undefined where there is no configuration
Field(st, name) == IF ConfigOf(st) \in Absent THEN Undefined ELSE ConfigOf(st).f[name]

Left == Str(<<"l", "e", "f", "t">>)

\* the configuration with every absent field replaced by its documented default
Defaulted(st) ==
    LET d == Field(st, "digit_after_decimal_point")
        s == Field(st, "currency_symbol")
        p == Field(st, "currency_symbol_direction")
    IN  StateWith(Config(IF d \in Absent THEN Whole(2) ELSE d,
                         IF s \in Absent THEN Str(<<>>) ELSE s,
                         IF p \in Absent THEN Left ELSE p))

SymbolOf(st) == Defaulted(st).f.configData.f.configData.f.currency_symbol.s
DigitsOf(st) == Defaulted(st).f.configData.f.configData.f.digit_after_decimal_point.n
DirectionOf(st) == Defaulted(st).f.configData.f.configData.f.currency_symbol_direction

\* the same configuration with an empty currency symbol
WithoutSymbol(st) ==
    StateWith(Config(Whole(DigitsOf(st)), Str(<<>>), DirectionOf(st)))

\* what is left of out when the symbol is taken from its front or from its end
NumericParts(out, sym) ==
    IF Len(out) < Len(sym) THEN {}
    ELSE {b \in {SubSeq(out, Len(sym) + 1, Len(out)), SubSeq(out, 1, Len(out) - Len(sym))} :
            out = sym \o b \/ out = b \o sym}

\* body is the decimal numeral, with exactly f digits after the point, of an
\* integer multiple of 10^-f nearest to x (on a tie the one of larger magnitude)
IsRounded(body, x, f) ==
    LET neg == body # <<>> /\ body[1] = "-"
        u == IF neg THEN Tail(body) ELSE body
        ip == IF f = 0 THEN u ELSE SubSeq(u, 1, Len(u) - f - 1)
        fp == IF f = 0 THEN <<>> ELSE SubSeq(u, Len(u) - f + 1, Len(u))
        k == DigitsToNat(ip \o fp)
        err == Abs(k * x.d - Abs(x.n) * Pow10(f))
    IN  /\ Len(u) >= (IF f = 0 THEN 1 ELSE f + 2)
        /\ f > 0 => u[Len(u) - f] = "."
        /\ \A i \in 1..Len(ip) : IsDigit(ip[i])
        /\ \A i \in 1..Len(fp) : IsDigit(fp[i])
        /\ Len(ip) > 1 => ip[1] # "0"
        /\ neg <=> x.n < 0
        /\ 2 * err <= x.d
        /\ 2 * err = x.d => k * x.d > Abs(x.n) * Pow10(f)

\* the numeral of x with its fraction dropped
Truncated(x) ==
    LET k == Abs(x.n) \div x.d
    IN  IF x.n < 0 /\ k > 0 THEN <<"-">> \o NatToStr(k) ELSE NatToStr(k)

Positive(x) == (x.t = "number" /\ x.n > 0) \/ (x.t = "Infinity" /\ x.sg > 0)
NonPositive(x) == (x.t = "number" /\ x.n <= 0) \/ (x.t = "Infinity" /\ x.sg < 0)

\* r is the finite number num / den
EqualsRational(r, num, den) == IsFinite(r) /\ r.n * den = r.d * num

KindAmount == Str(<<"a", "m", "o", "u", "n", "t">>)
KindPercent == Str(<<"p", "e", "r", "c", "e", "n", "t">>)
KindFixed == Str(<<"f", "i", "x", "e", "d">>)

ReferCall == last.op = "getReferDiscount"
KindPercentage == Str(<<"p", "e", "r", "c", "e", "n", "t", "a", "g", "e">>)

\* the activation of caller c has passed line 22
HasReadState(c) ==
    \/ calls[c].pc \in {"23", "24", "25", "33"}
    \/ calls[c].pc = "done" /\ ValidNumber(calls[c].amount)

ConfigFields ==
    {"digit_after_decimal_point", "currency_symbol", "currency_symbol_direction"}
Categories == {"infrastructure", "mobile", "frontend", "backend", "docs"}

\* analyze_changes has just returned: the lists are filled and nothing has
\* been done with them yet
Analyzed ==
    /\ sh.pc \in {"guard", "exit"}
    /\ sh.changed_files # <<>>
    /\ sh.k = 1
    /\ sh.userOf = "none"

PatternsOf(category) ==
    CASE category = "infrastructure" -> InfrastructurePatterns
      [] category = "mobile" -> MobilePatterns
      [] category = "frontend" -> FrontendPatterns
      [] category = "backend" -> BackendPatterns
      [] category = "docs" -> DocsPatterns

\* infrastructure, mobile, frontend, backend, docs: the order in which a file
\* matching several categories is claimed
CategoryRank ==
    [infrastructure |-> 1, mobile |-> 2, frontend |-> 3, backend |-> 4, docs |-> 5]

\* the categories whose patterns a file matches
MatchedBy(file) == {c \in Categories : Matches(PatternsOf(c), file)}

\* the one category a file belongs to
CategoryOf(file, composerJson) ==
    IF MatchedBy(file) = {} THEN (IF composerJson THEN "backend" ELSE "frontend")
    ELSE CHOOSE c \in MatchedBy(file) :
             \A other \in MatchedBy(file) : CategoryRank[c] <= CategoryRank[other]

\* infrastructure, backend, frontend, mobile, docs: the order of the commits
CommitRank ==
    [infrastructure |-> 1, backend |-> 2, frontend |-> 3, mobile |-> 4, docs |-> 5]

\* the user a category's commits are attributed to
UserOfCategory(category, users) ==
    CASE category \in {"frontend", "mobile"} -> users.frontend
      [] category = "infrastructure" -> users.devops
      [] OTHER -> users.backend
AddOnCall == last.op = "getSelectedAddOn"

\* a is a sequence of entries { name: string, isChecked: boolean }
IsSelection(a) ==
    /\ a.t = "array"
    /\ \A i \in 1..Len(a.items) : a.items[i] \in AddOnEntries

Checked(item) == item.f.isChecked = Bool(TRUE)

\* the names of the checked entries, in the order of the sequence
RECURSIVE CheckedNames(_)
CheckedNames(items) ==
    IF items = <<>> THEN <<>>
    ELSE IF Checked(Head(items))
         THEN <<Head(items).f.name.s>> \o CheckedNames(Tail(items))
         ELSE CheckedNames(Tail(items))

StartsWithSeparator(s) == Len(s) >= 2 /\ SubSeq(s, 1, 2) = <<",", " ">>

\* the non-empty pieces the separators cut s into, cur being the piece at hand
RECURSIVE Pieces(_, _)
Pieces(s, cur) ==
    IF s = <<>> THEN (IF cur = <<>> THEN <<>> ELSE <<cur>>)
    ELSE IF StartsWithSeparator(s)
         THEN (IF cur = <<>> THEN <<>> ELSE <<cur>>) \o Pieces(SubSeq(s, 3, Len(s)), <<>>)
         ELSE Pieces(Tail(s), Append(cur, Head(s)))

RECURSIVE SeparatorCount(_)
SeparatorCount(s) ==
    IF s = <<>> THEN 0
    ELSE IF StartsWithSeparator(s) THEN 1 + SeparatorCount(SubSeq(s, 3, Len(s)))
         ELSE SeparatorCount(Tail(s))

\* names joined by ", "
RECURSIVE Joined(_)
Joined(names) ==
    IF names = <<>> THEN <<>>
    ELSE IF Len(names) = 1 THEN names[1]
         ELSE names[1] \o <<",", " ">> \o Joined(Tail(names))

\* what the entry at position i (counted from 1) contributes when a separator
\* goes before every checked entry but one at the very front of the sequence
Segment(items, i) ==
    IF ~Checked(items[i]) THEN <<>>
    ELSE IF i = 1 THEN items[i].f.name.s
         ELSE <<",", " ">> \o items[i].f.name.s

\* the segments of the entries from position i on, one after the other
RECURSIVE SegmentsFrom(_, _)
SegmentsFrom(items, i) ==
    IF i > Len(items) THEN <<>> ELSE Segment(items, i) \o SegmentsFrom(items, i + 1)

----------------------------------------------------------------------------
(* The claims *)

\* C1: getAmountWithSign returns the empty string for every amount that is
\* null, undefined or not convertible to a finite number (NaN and the
\* infinities included), whatever needDecimal and the configuration are.
C1_InvalidAmountGivesEmpty ==
    (AmountCall /\ ~ValidAmount(last.amount)) => last.ret = Return(Str(<<>>))

\* C2: with needDecimal true, the numeric part of the output for a valid amount
\* is the amount rounded to the configured number of fractional digits, with
\* exactly that many digits after the point.
C2_RoundsToConfiguredDigits ==
    (AmountCall /\ WantsDecimals(last.needDecimal) /\ ValidAmount(last.amount)) =>
        /\ last.ret.kind = "return"
        /\ \E body \in NumericParts(last.ret.val.s, SymbolOf(last.state)) :
              IsRounded(body, ToNumber(last.amount), DigitsOf(last.state))

\* 12.345 at two digits with "$" on the left is "$12.35"
C2_Witness ==
    /\ AmountCall
    /\ last.amount = Num(2469, 200)
    /\ last.needDecimal = Bool(TRUE)
    /\ Field(last.state, "digit_after_decimal_point") = Whole(2)
    /\ last.ret = Return(Str(<<"$", "1", "2", ".", "3", "5">>))

\* C3: with needDecimal false, the numeric part of the output for a valid
\* amount, positive or negative, is the amount truncated toward zero.
C3_TruncatesTowardZero ==
    (AmountCall /\ last.needDecimal = Bool(FALSE) /\ ValidAmount(last.amount)) =>
        /\ last.ret.kind = "return"
        /\ Truncated(ToNumber(last.amount))
              \in NumericParts(last.ret.val.s, SymbolOf(last.state))

\* C4, as stated: the symbol stands immediately before the formatted number if
\* the symbol position is "left" (configured, or by default when absent) and
\* immediately after it for every other configured value; nothing else is added.
C4_LeftIffConfiguredLeft ==
    (AmountCall /\ ValidAmount(last.amount)) =>
        LET bare == getAmountWithSign(last.amount, last.needDecimal,
                                      WithoutSymbol(last.state))
            sym == SymbolOf(last.state)
        IN  /\ last.ret.kind = "return"
            /\ bare.kind = "return"
            /\ last.ret.val.s = IF DirectionOf(last.state) = Left
                                THEN sym \o bare.val.s
                                ELSE bare.val.s \o sym

\* C4, amended: the symbol stands immediately before the formatted number if
\* the configured position is "left", absent or the empty string, and
\* immediately after it for every other configured value; nothing else is added.
C4_LeftIffLeftOrEmpty ==
    (AmountCall /\ ValidAmount(last.amount)) =>
        LET bare == getAmountWithSign(last.amount, last.needDecimal,
                                      WithoutSymbol(last.state))
            sym == SymbolOf(last.state)
        IN  /\ last.ret.kind = "return"
            /\ bare.kind = "return"
            /\ last.ret.val.s = IF DirectionOf(last.state) \in {Left, Str(<<>>)}
                                THEN sym \o bare.val.s
                                ELSE bare.val.s \o sym

\* an unrecognised position puts the symbol behind the number
C4_Witness ==
    /\ AmountCall
    /\ last.amount = Num(-51, 4)
    /\ last.needDecimal = Bool(TRUE)
    /\ Field(last.state, "currency_symbol_direction") = Str(<<"c", "e", "n", "t", "e", "r">>)
    /\ Field(last.state, "digit_after_decimal_point") = Whole(1)
    /\ last.ret = Return(Str(<<"-", "1", "2", ".", "8", "$">>))

\* C5: a call under a configuration with absent fields (or with no store or no
\* configuration at all) returns what it returns under the configuration with
\* decimalDigits = 2, currencySymbol = "" and symbolPosition = left in the place
\* of each absent field, the fields that are present kept.
C5_AbsentFieldsDefault ==
    AmountCall =>
        last.ret = getAmountWithSign(last.amount, last.needDecimal, Defaulted(last.state))

\* digits absent, symbol and position present: two digits, "$" behind
C5_Witness ==
    /\ AmountCall
    /\ last.amount = Num(1, 8)
    /\ last.needDecimal = Undefined
    /\ Field(last.state, "digit_after_decimal_point") \in Absent
    /\ Field(last.state, "currency_symbol") = Str(<<"$">>)
    /\ Field(last.state, "currency_symbol_direction") = Str(<<"r", "i", "g", "h", "t">>)
    /\ last.ret = Return(Str(<<"0", ".", "1", "3", "$">>))

\* C6, as stated: with kind "amount" and discount > 0 the result is
\* price - discount * quantity for every (numeric) quantity, unclamped.
C6_AmountTimesAnyQuantity ==
    (/\ DiscountCall
     /\ last.discountType = KindAmount
     /\ Positive(ToNumber(last.discount))
     /\ last.quantity.t = "number") =>
        LET p == ToNumber(last.price)
            d == ToNumber(last.discount)
            q == last.quantity
        IN  /\ last.ret.kind = "return"
            /\ EqualsRational(last.ret.val, p.n * d.d * q.d - d.n * q.n * p.d,
                              p.d * d.d * q.d)

\* C6, amended: with kind "amount" and discount > 0 the result is
\* price - discount * quantity for every truthy quantity (a quantity that is
\* not 0, NaN, "", null or undefined), unclamped.
C6_AmountTimesTruthyQuantity ==
    (/\ DiscountCall
     /\ last.discountType = KindAmount
     /\ Positive(ToNumber(last.discount))
     /\ last.quantity \notin FalsyQuantities) =>
        LET p == ToNumber(last.price)
            d == ToNumber(last.discount)
            q == ToNumber(last.quantity)
        IN  /\ last.ret.kind = "return"
            /\ EqualsRational(last.ret.val, p.n * d.d * q.d - d.n * q.n * p.d,
                              p.d * d.d * q.d)

\* 100 - 10 * 11 is -10
C6_Witness ==
    /\ DiscountCall
    /\ last.discountType = KindAmount
    /\ last.price = Whole(100)
    /\ last.discount = Whole(10)
    /\ last.quantity = Whole(11)
    /\ last.ret = Return(Whole(-10))

\* C7: with kind "percent" or "fixed" and discount > 0 the result is
\* price - (discount / 100) * price, whatever the quantity is.
C7_PercentIgnoresQuantity ==
    (/\ DiscountCall
     /\ last.discountType \in {KindPercent, KindFixed}
     /\ Positive(ToNumber(last.discount))) =>
        LET p == ToNumber(last.price)
            d == ToNumber(last.discount)
        IN  /\ last.ret.kind = "return"
            /\ EqualsRational(last.ret.val, p.n * 100 * d.d - d.n * p.n, p.d * 100 * d.d)

\* 10 percent off 100 at quantity 3 is 90
C7_Witness ==
    /\ DiscountCall
    /\ last.discountType = KindFixed
    /\ last.price = Whole(100)
    /\ last.discount = Whole(10)
    /\ last.quantity = Whole(3)
    /\ last.ret = Return(Whole(90))

\* C8: if discount <= 0 the result is the price itself, for every kind and
\* quantity.
C8_NoDiscountKeepsPrice ==
    (DiscountCall /\ NonPositive(ToNumber(last.discount))) => last.ret = Return(last.price)

\* a negative discount of kind "amount" leaves the price "100" as it is
C8_Witness ==
    /\ DiscountCall
    /\ last.discountType = KindAmount
    /\ last.discount = Whole(-5)
    /\ last.quantity = Whole(2)
    /\ last.price = Str(<<"1", "0", "0">>)
    /\ last.ret = Return(Str(<<"1", "0", "0">>))

\* C9: with kind "amount" and discount > 0, a quantity that is undefined, null,
\* 0, NaN or "" gives the result of quantity 1, which is price - discount.
C9_FalsyQuantityIsOne ==
    (/\ DiscountCall
     /\ last.discountType = KindAmount
     /\ Positive(ToNumber(last.discount))
     /\ last.quantity \in {Undefined, Null, Whole(0), NaN, Str(<<>>)}) =>
        LET p == ToNumber(last.price)
            d == ToNumber(last.discount)
        IN  /\ last.ret.kind = "return"
            /\ EqualsRational(last.ret.val, p.n * d.d - d.n * p.d, p.d * d.d)
            /\ last.ret = getDiscountedAmount(last.price, last.discount,
                                              last.discountType, last.storeDiscount,
                                              Whole(1))

\* quantity 0: 100 - 10 is 90
C9_Witness ==
    /\ DiscountCall
    /\ last.discountType = KindAmount
    /\ last.price = Whole(100)
    /\ last.discount = Whole(10)
    /\ last.quantity = Whole(0)
    /\ last.ret = Return(Whole(90))

\* C10: a kind that is none of "amount", "percent", "fixed" (a missing one
\* included) leaves the price unchanged, and the call returns.
C10_UnknownKindKeepsPrice ==
    (DiscountCall /\ last.discountType \notin {KindAmount, KindPercent, KindFixed}) =>
        last.ret = Return(last.price)

\* kind "percentage" with a discount of 10 leaves 100 as it is
C10_Witness ==
    /\ DiscountCall
    /\ last.discountType = Str(<<"p", "e", "r", "c", "e", "n", "t", "a", "g", "e">>)
    /\ last.discount = Whole(10)
    /\ last.price = Whole(100)
    /\ last.ret = Return(Whole(100))

\* C11: with kind exactly "percentage", getReferDiscount returns
\* (discountValue / 100) * totalAmount, for every total and discount value
\* that is a number or converts to one.
C11_PercentageOfTotal ==
    (/\ ReferCall
     /\ last.refPercentage = KindPercentage
     /\ IsFinite(ToNumber(last.refDiscount))
     /\ IsFinite(ToNumber(last.totalAmountForRefer))) =>
        LET d == ToNumber(last.refDiscount)
            a == ToNumber(last.totalAmountForRefer)
        IN  /\ last.ret.kind = "return"
            /\ EqualsRational(last.ret.val, d.n * a.n, d.d * 100 * a.d)

\* 10 percent of 200 is 20
C11_Witness ==
    /\ ReferCall
    /\ last.refPercentage = KindPercentage
    /\ last.totalAmountForRefer = Whole(200)
    /\ last.refDiscount = Whole(10)
    /\ last.ret = Return(Whole(20))

\* C12: with every kind other than exactly "percentage" (a missing one
\* included) getReferDiscount returns the discount value as it was given,
\* whatever the total amount is.
C12_OtherKindsVerbatim ==
    (ReferCall /\ last.refPercentage # KindPercentage) =>
        /\ last.ret = Return(last.refDiscount)
        /\ \A total \in ReferTotals :
              getReferDiscount(total, last.refDiscount, last.refPercentage) = last.ret

\* kind "percent" with a value of 15 on a total of 200 gives 15
C12_Witness ==
    /\ ReferCall
    /\ last.refPercentage = KindPercent
    /\ last.totalAmountForRefer = Whole(200)
    /\ last.refDiscount = Whole(15)
    /\ last.ret = Return(Whole(15))
\* C13: the names in getSelectedAddOn's output are exactly the names of the
\* entries whose isChecked is true, one per checked entry, in the order of the
\* sequence; the name of an unchecked entry never appears.
C13_NamesOfCheckedEntries ==
    (AddOnCall /\ IsSelection(last.add_ons)) =>
        /\ last.ret.kind = "return"
        /\ Pieces(last.ret.val.s, <<>>) = CheckedNames(last.add_ons.items)

\* Cheese and Sauce checked, Bacon between them not
C13_Witness ==
    /\ AddOnCall
    /\ last.add_ons = Array(<<AddOn(Str(<<"C", "h", "e", "e", "s", "e">>), Bool(TRUE)),
                              AddOn(Str(<<"B", "a", "c", "o", "n">>), Bool(FALSE)),
                              AddOn(Str(<<"S", "a", "u", "c", "e">>), Bool(TRUE))>>)
    /\ last.ret = Return(Str(<<"C", "h", "e", "e", "s", "e", ",", " ",
                               "S", "a", "u", "c", "e">>))

\* C14: the output of getSelectedAddOn equals the checked names joined by
\* ", ": separators stand strictly between included names and never at the
\* front, also when unchecked entries precede the first checked one.
C14_JoinedWithoutLeadingSeparator ==
    (AddOnCall /\ IsSelection(last.add_ons)) =>
        /\ last.ret.kind = "return"
        /\ last.ret.val.s = Joined(CheckedNames(last.add_ons.items))
        /\ ~StartsWithSeparator(last.ret.val.s)

\* C15: a separator stands immediately before a checked entry's name if and
\* only if the entry is not at index 0 of the full sequence, however many
\* checked entries precede it; the number of separators is the number of
\* checked entries at index >= 1.
C15_SeparatorByIndex ==
    (AddOnCall /\ IsSelection(last.add_ons)) =>
        LET items == last.add_ons.items
        IN  /\ last.ret.kind = "return"
            /\ last.ret.val.s = SegmentsFrom(items, 1)
            /\ SeparatorCount(last.ret.val.s) =
                   Cardinality({i \in 2..Len(items) : Checked(items[i])})

\* an unchecked entry in front: the output begins with a separator
C15_Witness ==
    /\ AddOnCall
    /\ last.add_ons = Array(<<AddOn(Str(<<"B", "a", "c", "o", "n">>), Bool(FALSE)),
                              AddOn(Str(<<"C", "h", "e", "e", "s", "e">>), Bool(TRUE)),
                              AddOn(Str(<<"S", "a", "u", "c", "e">>), Bool(TRUE))>>)
    /\ last.ret = Return(Str(<<",", " ", "C", "h", "e", "e", "s", "e", ",", " ",
                               "S", "a", "u", "c", "e">>))

\* C16: getSelectedAddOn returns the empty string when its argument is null,
\* undefined, an empty sequence, or a sequence without a checked entry.
C16_NothingCheckedGivesEmpty ==
    (/\ AddOnCall
     /\ \/ IsNullish(last.add_ons)
        \/ /\ IsSelection(last.add_ons)
           /\ \A i \in 1..Len(last.add_ons.items) : ~Checked(last.add_ons.items[i])) =>
        last.ret = Return(Str(<<>>))

\* two entries, none checked
C16_Witness ==
    /\ AddOnCall
    /\ last.add_ons = Array(<<AddOn(Str(<<"B", "a", "c", "o", "n">>), Bool(FALSE)),
                              AddOn(Str(<<"S", "a", "u", "c", "e">>), Bool(FALSE))>>)
    /\ last.ret = Return(Str(<<>>))
\* C17: none of the four helpers ever throws: every call returns, whatever the
\* arguments and the configured digits are.
C17_NeverThrows ==
    last # Idle => last.ret.kind = "return"

\* C18: no call writes to its arguments or to the store: a step that performs
\* a call leaves the store as it was, and the add-on sequence after the call,
\* entry by entry, is the sequence that was passed in.
C18_CallsWriteNothing ==
    [][(last = Idle /\ last' # Idle) =>
          /\ store' = store
          /\ last'.op = "getSelectedAddOn" => last'.after = last'.add_ons]_vars

\* a call that has read two checked entries and left them checked
C18_Witness ==
    /\ AddOnCall
    /\ store = StateWith(Config(Whole(2), Str(<<"$">>), Str(<<"l", "e", "f", "t">>)))
    /\ last.ret = Return(Str(<<"C", "h", "e", "e", "s", "e", ",", " ",
                               "B", "a", "c", "o", "n">>))
    /\ last.after = Array(<<AddOn(Str(<<"C", "h", "e", "e", "s", "e">>), Bool(TRUE)),
                            AddOn(Str(<<"B", "a", "c", "o", "n">>), Bool(TRUE))>>)
\* C19: two calls of getAmountWithSign with equal arguments, made under store
\* states that agree on the decimal digits, the symbol and the symbol
\* direction, return equal results, whatever else the store holds and
\* whatever calls and updates happened between and during them.
C19_SameInputsSameResult ==
    \A c1, c2 \in Callers :
        (/\ calls[c1].pc = "done"
         /\ calls[c2].pc = "done"
         /\ calls[c1].amount = calls[c2].amount
         /\ calls[c1].needDecimal = calls[c2].needDecimal
         /\ \A name \in ConfigFields :
               Field(calls[c1].state, name) = Field(calls[c2].state, name)) =>
            calls[c1].ret = calls[c2].ret

\* 1.5 formatted with the defaults, once under a state without a configData
\* slice and once under a slice whose configuration is null
C19_Witness ==
    /\ calls[1].pc = "done"
    /\ calls[2].pc = "done"
    /\ calls[1].amount = Num(12, 8)
    /\ calls[2].amount = Num(12, 8)
    /\ calls[1].needDecimal = Undefined
    /\ calls[2].needDecimal = Undefined
    /\ calls[1].state = Object([auth |-> Undefined])
    /\ calls[2].state = StateWith(Null)
    /\ calls[1].ret = Return(Str(<<"1", ".", "5", "0">>))
    /\ calls[2].ret = calls[1].ret

\* C20: however calls and store updates interleave, the digits, the symbol
\* and the direction a call works with all come from the store state it read
\* at line 22, and its result is the one that state alone gives.
C20_OneSnapshotPerCall ==
    \A c \in Callers :
        LET call == calls[c]
            cfg == readConfig(call.state)
        IN  /\ (HasReadState(c) /\ call.pc # "23") => call.decimals = cfg.decimals
            /\ (HasReadState(c) /\ call.pc \notin {"23", "24"}) =>
                   call.symbol = cfg.symbol
            /\ (HasReadState(c) /\ call.pc \notin {"23", "24", "25"}) =>
                   call.direction = cfg.direction
            /\ call.pc = "done" =>
                   call.ret = getAmountWithSign(call.amount, call.needDecimal, call.state)

\* a call that read "$", two digits, left at line 22 and returned "$1.50"
\* after the store had moved on to "IQD", no digits, right
C20_Witness ==
    /\ calls[1].pc = "done"
    /\ calls[1].amount = Num(12, 8)
    /\ calls[1].state =
           StateWith(Config(Whole(2), Str(<<"$">>), Str(<<"l", "e", "f", "t">>)))
    /\ calls[1].stale
    /\ store = StateWith(Config(Whole(0), Str(<<"I", "Q", "D">>),
                                Str(<<"r", "i", "g", "h", "t">>)))
    /\ calls[1].ret = Return(Str(<<"$", "1", ".", "5", "0">>))
\* C21: the result of getDiscountedAmount does not depend on storeDiscount:
\* with the price, discount, kind and quantity of a call, every other value
\* of storeDiscount gives the result the call gave.
C21_StoreDiscountIgnored ==
    DiscountCall =>
        \A storeDiscount \in StoreDiscounts \cup {Undefined, Null, Whole(100),
                                                  Str(<<"5">>)} :
            getDiscountedAmount(last.price, last.discount, last.discountType,
                                storeDiscount, last.quantity) = last.ret

\* a store discount of 5 beside a discount of 10 on 2 items: 100 - 10 * 2
C21_Witness ==
    /\ DiscountCall
    /\ last.storeDiscount = Whole(5)
    /\ last.discountType = KindAmount
    /\ last.price = Whole(100)
    /\ last.discount = Whole(10)
    /\ last.quantity = Whole(2)
    /\ last.ret = Return(Whole(80))
\* C22: when files have changed and the configuration has loaded, the main
\* workflow runs to completion: it reaches "All commits completed" with one
\* commit for every category that has files, whichever categories are empty.
C22_RunsToCompletion ==
    (sh.pc = "check" /\ sh.changed_files # <<>>) ~>
        /\ sh.pc = "done"
        /\ \A c \in Categories :
              sh.lists[c] # <<>> =>
                  Cardinality({i \in 1..Len(sh.commits) : sh.commits[i].type = c}) = 1

\* C23: the commits of one run come in the order infrastructure, backend,
\* frontend, mobile, docs, at most one per category and none for a category
\* without files; the files of a category are staged and its commit is made
\* only while the identity in place is the one set for that very category.
C23_OneCommitPerCategoryInOrder ==
    /\ \A i, j \in 1..Len(sh.commits) :
          i < j => CommitRank[sh.commits[i].type] < CommitRank[sh.commits[j].type]
    /\ \A i \in 1..Len(sh.commits) :
          /\ sh.lists[sh.commits[i].type] # <<>>
          /\ sh.commits[i].name = set_git_user(sh.commits[i].type, sh.users).name
          /\ sh.commits[i].email = set_git_user(sh.commits[i].type, sh.users).email
    /\ sh.pc \in {"add", "commit"} =>
          /\ sh.userOf = CommitOrder[sh.k]
          /\ sh.user = set_git_user(CommitOrder[sh.k], sh.users)
    /\ sh.pc = "commit" =>
          RangeOf(sh.FILES[CommitOrder[sh.k]]) \subseteq
              sh.index \cup CommittedFiles(sh.commits)

\* Dockerfile, app/User.php and README.md: three commits, then the summary
C23_Witness ==
    /\ sh.pc = "done"
    /\ sh.changed_files = <<SamplePaths[1], SamplePaths[4], SamplePaths[5]>>
    /\ Len(sh.commits) = 3
    /\ sh.commits[1].type = "infrastructure"
    /\ sh.commits[2].type = "backend"
    /\ sh.commits[3].type = "docs"
    /\ sh.commits[1].files = {SamplePaths[1]}
\* C24: categorize_file puts every changed file into exactly one of the five
\* lists: the first of infrastructure, mobile, frontend, backend, docs whose
\* patterns it matches, and backend (with composer.json) or frontend (without)
\* when it matches none; when analyze_changes returns the lists are pairwise
\* disjoint and together hold every changed file, and nothing else.
C24_EveryFileInOneCategory ==
    Analyzed =>
        /\ \A file \in RangeOf(sh.changed_files) :
              {c \in Categories : file \in RangeOf(sh.lists[c])}
                  = {CategoryOf(file, sh.composerJson)}
        /\ \A c \in Categories :
              /\ RangeOf(sh.lists[c]) \subseteq RangeOf(sh.changed_files)
              /\ Cardinality(RangeOf(sh.lists[c])) = Len(sh.lists[c])

\* scripts/git/README.md matches infrastructure and docs, app/lib/main.dart
\* mobile and backend, Makefile nothing, and there is no composer.json
C24_Witness ==
    /\ Analyzed
    /\ ~sh.composerJson
    /\ sh.changed_files = <<SamplePaths[3], SamplePaths[6], SamplePaths[8]>>
    /\ sh.lists.infrastructure = <<SamplePaths[8]>>
    /\ sh.lists.mobile = <<SamplePaths[6]>>
    /\ sh.lists.frontend = <<SamplePaths[3]>>
    /\ sh.lists.backend = <<>>
    /\ sh.lists.docs = <<>>
\* C25: commits are attributed by category: frontend and mobile to the
\* frontend user, backend to the backend user, infrastructure to the devops
\* user, docs and any other type to the backend user, name and email always
\* those of one and the same configured user.
C25_UserByCategory ==
    /\ \A i \in 1..Len(sh.commits) :
          LET commit == sh.commits[i]
              user == UserOfCategory(commit.type, sh.users)
          IN  commit.name = user.name /\ commit.email = user.email
    /\ sh.pc \in {"add", "commit"} =>
          /\ sh.user = UserOfCategory(CommitOrder[sh.k], sh.users)
          /\ \E u \in {"frontend", "backend", "devops"} :
                sh.user.name = sh.users[u].name /\ sh.user.email = sh.users[u].email
          /\ \A other \in {"docs", "mixed", ""} :
                set_git_user(other, sh.users) = sh.users.backend

\* a run that has committed app/lib/main.dart as the frontend user and
\* README.md as the backend user
C25_Witness ==
    /\ sh.pc = "done"
    /\ Len(sh.commits) = 2
    /\ sh.commits[1] = [type |-> "mobile", name |-> "datacode-front",
                        email |-> "front@datacode.app", files |-> {SamplePaths[6]}]
    /\ sh.commits[2] = [type |-> "docs", name |-> "datacode-backend",
                        email |-> "backend@datacode.app", files |-> {SamplePaths[4]}]
====
